---- MODULE Spec2Model ----
(***************************************************************************)
(* Model of the PPTX export worker (pptx-export-worker): the convert       *)
(* endpoint of src/main.py and the HTML -> PPTX conversion service of      *)
(* src/services/html_to_pptx.py.                                           *)
(*                                                                         *)
(* Lengths are python-pptx EMU integers (914400 per inch).  Strings are    *)
(* read character by character where the code does (regular expressions,  *)
(* int, lower, strip, join); a Python dict is a function whose DOMAIN is   *)
(* its key set.  Python's None is a field of its own (none |-> TRUE) or an *)
(* empty sequence, as noted at each use.  A call that can raise gives back *)
(* its value together with the exception, one of the two empty.           *)
(***************************************************************************)
EXTENDS Integers, Sequences, FiniteSets, TLC

VARIABLES
    environ,      \* os.environ as read when the service object is constructed
    config,       \* the fields HTMLToPPTXService.__init__ sets on the shared instance
    workload,     \* how the server is driven: one request at a time, or several at once
    pc,           \* per request slot: the position of its handler
    request,      \* per slot: the PPTXConversionRequest body (slides, metadata)
    world,        \* per slot: what the collaborators answer during this request
    args,         \* per slot: the arguments convert_html_to_pptx was called with
    prs,          \* per slot: the local variable prs (a canvas reference, 0: unbound)
    canvases,     \* the heap of Presentation objects, by reference
    idx,          \* per slot: index of the next fragment of the for loop
    result,       \* per slot: what convert_html_to_pptx handed back to the endpoint
    response,     \* per slot: the HTTP response of the endpoint
    compliance_check, \* per slot: the local variable compliance_check
    trace,        \* per slot: the calls the conversion has made so far, in order
    gateCalls,    \* per slot: the arguments of each Policy Gate call
    helper,       \* a function of the service called on its own: name and argument
    returned      \* what that call gave back, once it has

vars == <<environ, config, workload, pc, request, world, args, prs, canvases,
          idx, result, response, compliance_check, trace, gateCalls, helper,
          returned>>

----------------------------------------------------------------------------
(* Bounds of the model *)

NumSlots == 2
MaxSlides == 2
MaxElements == 3

Slots == 1..NumSlots
CanvasRefs == 1..NumSlots
Orders == {1, 2}

----------------------------------------------------------------------------
(* Small helpers for Python values *)

EmptyDict == [k \in {} |-> ""]

\* dict.get(key, default)
Get(d, key, default) == IF key \in DOMAIN d THEN d[key] ELSE default

\* truthiness of a str
Truthy(s) == s # ""

\* pptx.util.Inches(x) = int(x * 914400), with x given in tenths of an inch
Inches(tenths) == tenths * 91440

Min(a, b) == IF a <= b THEN a ELSE b

\* "%d" % x of a quotient a / b: the value cut towards zero
TruncDiv(a, b) == IF a >= 0 THEN a \div b ELSE -((-a) \div b)

NoExc == [type |-> "", message |-> ""]
Exc(type, message) == [type |-> type, message |-> message]

----------------------------------------------------------------------------
(* Strings, character by character *)

\* s[i:i+1]
Char(s, i) == SubSeq(s, i, i)

\* the characters \s and \d match, of those the model's strings hold
Whitespace == {" ", "\t", "\n"}
DigitChars == "0123456789"
UpperHexChars == "0123456789ABCDEF"
LowerHexChars == "0123456789abcdef"
UpperChars == "ABCDEFGHIJKLMNOPQRSTUVWXYZ"
LowerChars == "abcdefghijklmnopqrstuvwxyz"

CharsOf(alphabet) == {Char(alphabet, k) : k \in 1..Len(alphabet)}

\* alphabet.index(c), from 0
IndexOf(c, alphabet) == (CHOOSE k \in 1..Len(alphabet) : Char(alphabet, k) = c) - 1

\* the value of one digit of int(text, base)
DigitValue(c) ==
    IF c \in CharsOf(UpperHexChars) THEN IndexOf(c, UpperHexChars)
    ELSE IndexOf(c, LowerHexChars)

\* int(text, base) for a text of digits of that base
RECURSIVE ParseInt(_, _)
ParseInt(text, base) ==
    IF text = "" THEN 0
    ELSE ParseInt(SubSeq(text, 1, Len(text) - 1), base) * base
         + DigitValue(Char(text, Len(text)))

\* str.lower() that leaves every letter as it is
LowerIdentity(s) == s

\* str.lower()
RECURSIVE Lower(_)
Lower(s) ==
    IF s = "" THEN ""
    ELSE LET c == Char(s, 1)
         IN (IF c \in CharsOf(UpperChars)
             THEN Char(LowerChars, IndexOf(c, UpperChars) + 1) ELSE c)
            \o Lower(Tail(s))

\* str.strip()
RECURSIVE Strip(_)
Strip(s) ==
    IF s = "" THEN ""
    ELSE IF Char(s, 1) \in Whitespace THEN Strip(Tail(s))
    ELSE IF Char(s, Len(s)) \in Whitespace THEN Strip(SubSeq(s, 1, Len(s) - 1))
    ELSE s

\* sep.join(parts)
RECURSIVE Join(_, _)
Join(parts, sep) ==
    IF parts = <<>> THEN ""
    ELSE IF Len(parts) = 1 THEN parts[1]
    ELSE parts[1] \o sep \o Join(Tail(parts), sep)

\* text.split(sep), sep one character
RECURSIVE Split(_, _)
Split(text, sep) ==
    LET hits == {k \in 1..Len(text) : Char(text, k) = sep}
        first == CHOOSE k \in hits : \A j \in hits : k <= j
    IN IF hits = {} THEN <<text>>
       ELSE <<SubSeq(text, 1, first - 1)>>
            \o Split(SubSeq(text, first + 1, Len(text)), sep)

\* Regular-expression matching by position: a position is an index into the
\* string, 0 once the match has failed.  Every repetition of the patterns
\* below is followed by a character outside its class, so the longest run
\* is the only run that can match.
RECURSIVE SkipWhile(_, _, _)
SkipWhile(s, i, class) ==
    IF i <= Len(s) /\ Char(s, i) \in class THEN SkipWhile(s, i + 1, class) ELSE i

\* a literal
Lit(s, i, lit) ==
    IF i # 0 /\ i + Len(lit) - 1 <= Len(s) /\ SubSeq(s, i, i + Len(lit) - 1) = lit
    THEN i + Len(lit) ELSE 0

\* \s* that matches the empty string only
WsNone(s, i) == i

\* \s*
Ws(s, i) == IF i = 0 THEN 0 ELSE SkipWhile(s, i, Whitespace)

\* \d+
Num(s, i) ==
    IF i = 0 THEN 0
    ELSE LET j == SkipWhile(s, i, CharsOf(DigitChars))
         IN IF j > i THEN j ELSE 0

----------------------------------------------------------------------------
(* Color extraction: _extract_rgb_color *)

\* Optional[str]
NoneStr == [none |-> TRUE, s |-> ""]
Str(s) == [none |-> FALSE, s |-> s]

NoColor == <<>>

\* What a call gives back: the value it returns, or the exception it raises
Returns(value) == [value |-> value, exc |-> NoExc]
Raises(e) == [value |-> <<>>, exc |-> e]

\* pptx.dml.color.RGBColor(r, g, b): a triple of integers 0-255, ValueError
\* for any other
RGBColor(r, g, b) ==
    IF \A v \in {r, g, b} : v >= 0 /\ v <= 255
    THEN Returns(<<r, g, b>>)
    ELSE Raises(Exc("ValueError", "RGBColor() takes three integer values 0-255"))

\* re.match(r'rgb\s*\(\s*(\d+)\s*,\s*(\d+)\s*,\s*(\d+)\s*\)', s): the three
\* groups, or <<>> for no match.  re.match anchors the pattern at the start
\* of the string and not at its end.
RgbMatch(s) ==
    LET r1 == Ws(s, Lit(s, Ws(s, Lit(s, 1, "rgb")), "("))
        r2 == Num(s, r1)
        g1 == Ws(s, Lit(s, Ws(s, r2), ","))
        g2 == Num(s, g1)
        b1 == Ws(s, Lit(s, Ws(s, g2), ","))
        b2 == Num(s, b1)
        end == Lit(s, Ws(s, b2), ")")
    IN IF end = 0 THEN <<>>
       ELSE <<SubSeq(s, r1, r2 - 1), SubSeq(s, g1, g2 - 1), SubSeq(s, b1, b2 - 1)>>

\* [0-9A-F]{6}: a pattern that takes the upper-case digits only
HexMatchUpper(s) ==
    IF /\ Lit(s, 1, "#") # 0
       /\ Len(s) >= 7
       /\ \A k \in 2..7 : Char(s, k) \in CharsOf(UpperHexChars)
    THEN SubSeq(s, 2, 7) ELSE ""

\* re.match(r'#([0-9A-Fa-f]{6})', s): group 1, or "" for no match
HexMatch(s) ==
    IF /\ Lit(s, 1, "#") # 0
       /\ Len(s) >= 7
       /\ \A k \in 2..7 :
             Char(s, k) \in CharsOf(UpperHexChars) \cup CharsOf(LowerHexChars)
    THEN SubSeq(s, 2, 7) ELSE ""

color_map ==
    [black |-> <<0, 0, 0>>, white |-> <<255, 255, 255>>, red |-> <<255, 0, 0>>,
     green |-> <<0, 128, 0>>, blue |-> <<0, 0, 255>>,
     gray |-> <<128, 128, 128>>, grey |-> <<128, 128, 128>>]

_extract_rgb_color(color_str) ==
    IF color_str.none \/ ~Truthy(color_str.s) THEN Returns(NoColor)
    ELSE LET s == color_str.s
             rgb_match == RgbMatch(s)
             hex_color == HexMatch(s)
         IN IF rgb_match # <<>>
            THEN RGBColor(ParseInt(rgb_match[1], 10), ParseInt(rgb_match[2], 10),
                          ParseInt(rgb_match[3], 10))
            ELSE IF hex_color # ""
            THEN RGBColor(ParseInt(SubSeq(hex_color, 1, 2), 16),
                          ParseInt(SubSeq(hex_color, 3, 4), 16),
                          ParseInt(SubSeq(hex_color, 5, 6), 16))
            ELSE Returns(Get(color_map, Lower(s), NoColor))

----------------------------------------------------------------------------
(* Configuration: HTMLToPPTXService.__init__ and _parse_dimension *)

RECURSIVE Pow10(_)
Pow10(n) == IF n = 0 THEN 1 ELSE 10 * Pow10(n - 1)

\* float(value), for the forms the model's strings take (sign, digits, a
\* decimal point, inf, nan; whitespace around them is skipped): the number
\* as the exact quotient num / den, or infinity, or not-a-number, or the
\* ValueError of a string that is none of these
FloatOf(value) ==
    LET s == Strip(value)
        signed == s # "" /\ Char(s, 1) \in {"+", "-"}
        sign == IF s # "" /\ Char(s, 1) = "-" THEN -1 ELSE 1
        i == IF signed THEN 2 ELSE 1
        j == SkipWhile(s, i, CharsOf(DigitChars))
        dot == j <= Len(s) /\ Char(s, j) = "."
        k == IF dot THEN SkipWhile(s, j + 1, CharsOf(DigitChars)) ELSE j
        whole == SubSeq(s, i, j - 1)
        frac == IF dot THEN SubSeq(s, j + 1, k - 1) ELSE ""
        word == Lower(SubSeq(s, i, Len(s)))
    IN IF word \in {"inf", "infinity"} THEN [kind |-> "inf", num |-> sign, den |-> 1]
       ELSE IF word = "nan" THEN [kind |-> "nan", num |-> 0, den |-> 1]
       ELSE IF k = Len(s) + 1 /\ (whole # "" \/ frac # "")
       THEN [kind |-> "number", num |-> sign * ParseInt(whole \o frac, 10),
             den |-> Pow10(Len(frac))]
       ELSE [kind |-> "error", num |-> 0, den |-> 1]

\* try: Inches(float(value)); except (ValueError, TypeError): Inches(10).
\* Inches(x) is int(x * 914400): int of not-a-number is a ValueError, int of
\* infinity an OverflowError, which the except clause does not name.
_parse_dimension(value) ==
    LET f == FloatOf(value)
    IN IF f.kind \in {"error", "nan"} THEN Returns(Inches(100))
       ELSE IF f.kind = "inf"
       THEN Raises(Exc("OverflowError",
                       "cannot convert float infinity to integer"))
       ELSE Returns(TruncDiv(f.num * Inches(10), f.den))

\* int(value): optional sign and decimal digits, whitespace around them
\* skipped; ValueError for any other string
IntOf(value) ==
    LET s == Strip(value)
        signed == s # "" /\ Char(s, 1) \in {"+", "-"}
        sign == IF s # "" /\ Char(s, 1) = "-" THEN -1 ELSE 1
        i == IF signed THEN 2 ELSE 1
        j == SkipWhile(s, i, CharsOf(DigitChars))
    IN IF j = Len(s) + 1 /\ j > i
       THEN Returns(sign * ParseInt(SubSeq(s, i, Len(s)), 10))
       ELSE Raises(Exc("ValueError", "invalid literal for int() with base 10"))

\* The fields __init__ sets, or the first exception one of its
\* conversions raises: nothing in __init__ catches it.
HTMLToPPTXService_init(env) ==
    LET slide_width == _parse_dimension(Get(env, "PPTX_SLIDE_WIDTH", "10"))
        slide_height == _parse_dimension(Get(env, "PPTX_SLIDE_HEIGHT", "7.5"))
        title_font_size == IntOf(Get(env, "PPTX_TITLE_FONT_SIZE", "44"))
        body_font_size == IntOf(Get(env, "PPTX_BODY_FONT_SIZE", "28"))
        image_quality == IntOf(Get(env, "PPTX_IMAGE_QUALITY", "95"))
        max_image_width == _parse_dimension(Get(env, "PPTX_MAX_IMAGE_WIDTH", "8"))
        max_image_height == _parse_dimension(Get(env, "PPTX_MAX_IMAGE_HEIGHT", "5"))
        request_timeout == IntOf(Get(env, "HTTP_TIMEOUT", "30"))
        steps == <<slide_width, slide_height, title_font_size, body_font_size,
                   image_quality, max_image_width, max_image_height,
                   request_timeout>>
        failed == {n \in 1..Len(steps) : steps[n].exc # NoExc}
    IN IF failed # {}
       THEN Raises(steps[CHOOSE n \in failed : \A m \in failed : n <= m].exc)
       ELSE Returns(
           [slide_width |-> slide_width.value,
            slide_height |-> slide_height.value,
            default_font |-> Get(env, "PPTX_DEFAULT_FONT", "Meiryo"),  \* the katakana name
            title_font_size |-> title_font_size.value,
            body_font_size |-> body_font_size.value,
            image_quality |-> image_quality.value,
            max_image_width |-> max_image_width.value,
            max_image_height |-> max_image_height.value,
            request_timeout |-> request_timeout.value])

\* The environments the service is started in: nothing set, and the one the
\* service's own test sets.
DefaultEnviron == EmptyDict
NarrowEnviron == [PPTX_SLIDE_WIDTH |-> "8"]
LowEnviron == [PPTX_SLIDE_HEIGHT |-> "1"]
CustomEnviron ==
    [PPTX_SLIDE_WIDTH |-> "12", PPTX_SLIDE_HEIGHT |-> "9",
     PPTX_DEFAULT_FONT |-> "Arial", PPTX_TITLE_FONT_SIZE |-> "50",
     PPTX_BODY_FONT_SIZE |-> "30"]

----------------------------------------------------------------------------
(* HTML fragments and the slide parser: _parse_html_slide *)

\* An HTML fragment as BeautifulSoup sees it: its elements in document order,
\* each with its tag, its text content and its attributes.
El(tag, text, attrs) == [tag |-> tag, text |-> text, attrs |-> attrs]

\* elem.get_text() without strip=True
get_text_unstripped(elem) == elem.text

\* elem.get_text(strip=True), for an element whose text is one string
get_text(elem) == Strip(elem.text)

UrlOk == "http://img/ok.png"
Url404 == "http://img/404.png"
UrlTimeout == "http://img/slow.png"
UrlNotImage == "http://img/page.html"
UrlTruncated == "http://img/truncated.png"
UrlPortrait == "http://img/tall.png"
UrlSquare == "http://img/square.png"
UrlOdd == "http://img/7x3.png"
UrlNearSquare == "http://img/9x8.png"

FragText ==
    <<El("body", "", [style |-> "background-color: rgb(255, 255, 255)"]),
      El("h1", "T", EmptyDict), El("p", "T", EmptyDict), El("p", "B", EmptyDict)>>
FragImgs ==
    <<El("h2", "Pics", EmptyDict),
      El("img", "", [src |-> Url404, alt |-> "a"]),
      El("img", "", [src |-> UrlTimeout]),
      El("img", "", [src |-> UrlNotImage, alt |-> "c"]),
      El("img", "", [alt |-> "no source"]),
      El("img", "", [src |-> UrlOk, alt |-> "d"])>>
FragTrunc ==
    <<El("li", "item", EmptyDict),
      El("img", "", [src |-> UrlTruncated, alt |-> "t"]),
      El("img", "", [src |-> UrlOk, alt |-> "d"])>>
FragEmpty == <<>>
FragBadBg ==
    <<El("body", "", [style |-> "background-color: rgb(300, 0, 0)"]),
      El("h1", "T", EmptyDict)>>

Fragments == {FragText, FragImgs, FragTrunc, FragEmpty, FragBadBg}

\* [^;]*: the position behind the longest run without a ';'
RECURSIVE SkipUntil(_, _, _)
SkipUntil(s, i, stop) ==
    IF i <= Len(s) /\ Char(s, i) # stop THEN SkipUntil(s, i + 1, stop) ELSE i

\* r'background-color:\s*([^;]+)' tried at position k: group 1, or "" when
\* the pattern does not match there.  When the whitespace run ends at a ';'
\* or at the end of the string, \s* gives its last character back to the
\* group.
BgMatchAt(style, k) ==
    LET p == Lit(style, k, "background-color:")
        q == Ws(style, p)
        e == SkipUntil(style, q, ";")
    IN IF p = 0 THEN ""
       ELSE IF e > q THEN SubSeq(style, q, e - 1)
       ELSE IF q > p THEN Char(style, q - 1)
       ELSE ""

\* a search that looks at the start of the style only
BgMatchAtStart(style) == BgMatchAt(style, 1)

\* re.search(r'background-color:\s*([^;]+)', style): group 1 of the leftmost
\* match, or "" for no match
BgMatch(style) ==
    LET hits == {k \in 1..Len(style) : BgMatchAt(style, k) # ""}
    IN IF hits = {} THEN ""
       ELSE BgMatchAt(style, CHOOSE k \in hits : \A j \in hits : k <= j)

\* soup.find(tags): index of the first element with one of the tags, 0 for None
Find(html, tags) ==
    IF \E i \in 1..Len(html) : html[i].tag \in tags
    THEN CHOOSE i \in 1..Len(html) :
            /\ html[i].tag \in tags
            /\ \A j \in 1..(i - 1) : html[j].tag \notin tags
    ELSE 0

\* body parts that keep a text equal to the title
RECURSIVE BodyPartsWithTitle(_, _, _)
BodyPartsWithTitle(html, i, title) ==
    IF i > Len(html) THEN <<>>
    ELSE LET e == html[i]
             rest == BodyPartsWithTitle(html, i + 1, title)
             text == get_text(e)
         IN IF e.tag \in {"p", "li", "h3", "h4", "h5", "h6"} /\ Truthy(text)
            THEN <<text>> \o rest
            ELSE rest

\* the list comprehension [f(e) for e in html if keep(e)], in document order
RECURSIVE BodyParts(_, _, _)
BodyParts(html, i, title) ==
    IF i > Len(html) THEN <<>>
    ELSE LET e == html[i]
             rest == BodyParts(html, i + 1, title)
             text == get_text(e)
         IN IF /\ e.tag \in {"p", "li", "h3", "h4", "h5", "h6"}
               /\ Truthy(text)
               /\ text # title
            THEN <<text>> \o rest
            ELSE rest

\* images that list a source URL once
RECURSIVE ImagesUnique(_, _)
ImagesUnique(html, i) ==
    IF i > Len(html) THEN <<>>
    ELSE LET e == html[i]
             src == Get(e.attrs, "src", "")
             alt == Get(e.attrs, "alt", "")
             rest == ImagesUnique(html, i + 1)
         IN IF /\ e.tag = "img" /\ Truthy(src)
               /\ \A j \in 1..(i - 1) : Get(html[j].attrs, "src", "") # src
            THEN <<[src |-> src, alt |-> alt]>> \o rest
            ELSE rest

RECURSIVE Images(_, _)
Images(html, i) ==
    IF i > Len(html) THEN <<>>
    ELSE LET e == html[i]
             src == Get(e.attrs, "src", "")
             alt == Get(e.attrs, "alt", "")
             rest == Images(html, i + 1)
         IN IF e.tag = "img" /\ Truthy(src)
            THEN <<[src |-> src, alt |-> alt]>> \o rest
            ELSE rest

\* a parser that keeps the heading's text as it stands in the markup
_parse_html_slide_unstripped(html_content) ==
    LET t == Find(html_content, {"h1", "h2"})
        title == IF t # 0 THEN get_text_unstripped(html_content[t]) ELSE ""
        b == Find(html_content, {"body"})
        style == IF b # 0 THEN Get(html_content[b].attrs, "style", "") ELSE ""
        bg == IF b # 0 /\ BgMatch(style) # ""
              THEN _extract_rgb_color(Str(BgMatch(style))) ELSE Returns(NoColor)
    IN IF bg.exc # NoExc THEN Raises(bg.exc)
       ELSE Returns([title |-> title,
                     body |-> Join(BodyParts(html_content, 1, title), "\n"),
                     images |-> Images(html_content, 1),
                     background_color |-> bg.value])

\* What the call gives back: the dict it returns, or the exception it raises
\* (the one of _extract_rgb_color; nothing in the function catches it).
_parse_html_slide(html_content) ==
    LET t == Find(html_content, {"h1", "h2"})
        title == IF t # 0 THEN get_text(html_content[t]) ELSE ""
        b == Find(html_content, {"body"})
        style == IF b # 0 THEN Get(html_content[b].attrs, "style", "") ELSE ""
        bg == IF b # 0 /\ BgMatch(style) # ""
              THEN _extract_rgb_color(Str(BgMatch(style))) ELSE Returns(NoColor)
    IN IF bg.exc # NoExc THEN Raises(bg.exc)
       ELSE Returns([title |-> title,
                     body |-> Join(BodyParts(html_content, 1, title), "\n"),
                     images |-> Images(html_content, 1),
                     background_color |-> bg.value])

----------------------------------------------------------------------------
(* Image resolver: _download_image *)

\* What the network answers for a URL: requests.get raising (timeout,
\* connection error), the HTTP status, whether PIL identifies the payload
\* (Image.open reads the header only), the size the header declares, and
\* whether the pixel data can be read when the image is saved.
Http(raises, status, identified, w, h, loads) ==
    [raises |-> raises, status |-> status, identified |-> identified,
     width |-> w, height |-> h, loads |-> loads]

Fetch(url) ==
    CASE url = UrlOk -> Http(FALSE, 200, TRUE, 3, 2, TRUE)
      [] url = Url404 -> Http(FALSE, 404, FALSE, 0, 0, FALSE)
      [] url = UrlTimeout -> Http(TRUE, 0, FALSE, 0, 0, FALSE)
      [] url = UrlNotImage -> Http(FALSE, 200, FALSE, 0, 0, FALSE)
      [] url = UrlTruncated -> Http(FALSE, 200, TRUE, 3, 2, FALSE)
      [] url = UrlPortrait -> Http(FALSE, 200, TRUE, 2, 3, TRUE)
      [] url = UrlSquare -> Http(FALSE, 200, TRUE, 2, 2, TRUE)
      [] url = UrlOdd -> Http(FALSE, 200, TRUE, 7, 3, TRUE)
      [] url = UrlNearSquare -> Http(FALSE, 200, TRUE, 9, 8, TRUE)
      [] OTHER -> Http(TRUE, 0, FALSE, 0, 0, FALSE)

NoImage == [none |-> TRUE, width |-> 0, height |-> 0, loads |-> FALSE]

\* try: get, raise_for_status, Image.open; except Exception: return None
_download_image(url) ==
    LET a == Fetch(url)
    IN IF a.raises \/ a.status >= 400 \/ ~a.identified
       THEN NoImage
       ELSE [none |-> FALSE, width |-> a.width, height |-> a.height,
             loads |-> a.loads]

----------------------------------------------------------------------------
(* Layout engine: _add_slide_content *)

TextBox(left, top, width, height, paragraphs, font, size, bold, wrap, anchor) ==
    [kind |-> "textbox", left |-> left, top |-> top, width |-> width,
     height |-> height, paragraphs |-> paragraphs, alignment |-> "left",
     font_name |-> font, font_size |-> size, bold |-> bold,
     word_wrap |-> wrap, vertical_anchor |-> anchor]

TitleBox(slide_data, cfg) ==
    TextBox(Inches(5), Inches(5), cfg.slide_width - Inches(10), Inches(15),
            <<slide_data.title>>, cfg.default_font, cfg.title_font_size,
            TRUE, FALSE, "unset")

\* a body box that starts at the top margin whether or not a title is there
BodyTopOffsetFixed(slide_data) == Inches(5)

BodyTopOffset(slide_data) ==
    IF Truthy(slide_data.title) THEN Inches(25) ELSE Inches(5)

BodyBox(slide_data, cfg) ==
    TextBox(Inches(5), BodyTopOffset(slide_data), cfg.slide_width - Inches(10),
            cfg.slide_height - BodyTopOffset(slide_data) - Inches(5),
            Split(slide_data.body, "\n"), cfg.default_font, cfg.body_font_size,
            FALSE, TRUE, "top")

\* a fit that takes a square image for a landscape one
FitSquareAsLandscape(img, cfg) ==
    LET w == img.width
        h == img.height
        iw == Min(cfg.max_image_width, cfg.slide_width - Inches(10))
        ih == Min(cfg.max_image_height, cfg.slide_height - Inches(30))
    IN IF w >= h
       THEN [width |-> [num |-> iw, den |-> 1],
             height |-> [num |-> iw * h, den |-> w]]
       ELSE [width |-> [num |-> ih * w, den |-> h],
             height |-> [num |-> ih, den |-> 1]]

\* insert_width and insert_height of one downloaded image, each the exact
\* quotient num / den in EMU.  aspect_ratio = img_width / img_height is kept
\* as the pair (w, h): it is above 1 exactly when w > h.
Fit(img, cfg) ==
    LET w == img.width
        h == img.height
        iw == Min(cfg.max_image_width, cfg.slide_width - Inches(10))
        ih == Min(cfg.max_image_height, cfg.slide_height - Inches(30))
    IN IF w > h
       THEN [width |-> [num |-> iw, den |-> 1],
             height |-> [num |-> iw * h, den |-> w]]
       ELSE [width |-> [num |-> ih * w, den |-> h],
             height |-> [num |-> ih, den |-> 1]]

\* The picture shape of one downloaded image: add_picture writes each
\* length with "%d".
Picture(img, url, cfg) ==
    LET f == Fit(img, cfg)
    IN [kind |-> "picture", image |-> url,
        width |-> TruncDiv(f.width.num, f.width.den),
        height |-> TruncDiv(f.height.num, f.height.den),
        left |-> TruncDiv(cfg.slide_width * f.width.den - f.width.num,
                          2 * f.width.den),
        top |-> TruncDiv((cfg.slide_height - Inches(5)) * f.height.den
                             - f.height.num,
                         f.height.den)]

\* a loop that puts each image above the shapes already on the slide
RECURSIVE AddImagesStacked(_, _, _, _)
AddImagesStacked(shapes, images, i, cfg) ==
    IF i > Len(images) THEN [shapes |-> shapes, exc |-> NoExc]
    ELSE LET url == images[i].src
             pil_image == _download_image(url)
         IN IF pil_image.none
            THEN AddImagesStacked(shapes, images, i + 1, cfg)
            ELSE IF ~pil_image.loads
            THEN [shapes |-> shapes,
                  exc |-> Exc("OSError", "image file is truncated")]
            ELSE AddImagesStacked(
                     Append(shapes,
                            [Picture(pil_image, url, cfg) EXCEPT
                                !.top = @ - Len(shapes) * Inches(5)]),
                     images, i + 1, cfg)

\* for img_data in slide_data['images']: the shapes after the loop, and the
\* exception that ended it (pil_image.save reads the pixel data and raises
\* OSError on a truncated payload; nothing in the loop catches it)
RECURSIVE AddImages(_, _, _, _)
AddImages(shapes, images, i, cfg) ==
    IF i > Len(images) THEN [shapes |-> shapes, exc |-> NoExc]
    ELSE LET url == images[i].src
             pil_image == _download_image(url)
         IN IF pil_image.none
            THEN AddImages(shapes, images, i + 1, cfg)
            ELSE IF ~pil_image.loads
            THEN [shapes |-> shapes,
                  exc |-> Exc("OSError", "image file is truncated")]
            ELSE AddImages(Append(shapes, Picture(pil_image, url, cfg)),
                           images, i + 1, cfg)

\* a renderer that adds no slide for a model with nothing to show
_add_slide_content_skip_empty(canvas, slide_data, cfg) ==
    LET withTitle == IF Truthy(slide_data.title)
                     THEN <<TitleBox(slide_data, cfg)>> ELSE <<>>
        withBody == IF Truthy(slide_data.body)
                    THEN Append(withTitle, BodyBox(slide_data, cfg))
                    ELSE withTitle
        done == AddImages(withBody, slide_data.images, 1, cfg)
        slide == [background |-> slide_data.background_color,
                  shapes |-> done.shapes]
    IN [canvas |-> IF done.shapes = <<>> THEN canvas
                   ELSE [canvas EXCEPT !.slides = Append(@, slide)],
        exc |-> done.exc]

\* The canvas after the call and the exception the call raised, if any.  The
\* blank slide is appended first; a later exception leaves it on the canvas.
_add_slide_content(canvas, slide_data, cfg) ==
    LET withTitle == IF Truthy(slide_data.title)
                     THEN <<TitleBox(slide_data, cfg)>> ELSE <<>>
        withBody == IF Truthy(slide_data.body)
                    THEN Append(withTitle, BodyBox(slide_data, cfg))
                    ELSE withTitle
        done == AddImages(withBody, slide_data.images, 1, cfg)
        slide == [background |-> slide_data.background_color,
                  shapes |-> done.shapes]
    IN [canvas |-> [canvas EXCEPT !.slides = Append(@, slide)],
        exc |-> done.exc]

----------------------------------------------------------------------------
(* Policy Gate: check_constitutional_compliance and get_compliance_summary *)
(* (src/utils/constitutional_ai.py).  The gate answers a request with      *)
(* compliant or not and a score; what it answers is the request's world.   *)

\* The result of check(action, data, audit_context) in world w
check_constitutional_compliance(action, data, audit_context, w) ==
    [compliant |-> w.compliant,
     score |-> IF w.compliant THEN "0.9997" ELSE "0.5"]

get_compliance_summary(check) ==
    [compliant |-> check.compliant, score |-> check.score]

----------------------------------------------------------------------------
(* Endpoint helpers: convert_to_pptx *)

\* an insertion that puts x before the elements of its own order
InsertUnstable(sorted, x) ==
    LET k == Cardinality({i \in 1..Len(sorted) : sorted[i].order < x.order})
    IN SubSeq(sorted, 1, k) \o <<x>> \o SubSeq(sorted, k + 1, Len(sorted))

\* sorted(slides, key=lambda s: s.order): Python's sort is stable.  x goes
\* behind every element whose order is not greater than its own.
Insert(sorted, x) ==
    LET k == Cardinality({i \in 1..Len(sorted) : sorted[i].order <= x.order})
    IN SubSeq(sorted, 1, k) \o <<x>> \o SubSeq(sorted, k + 1, Len(sorted))

RECURSIVE SortedByOrder(_)
SortedByOrder(slides) ==
    IF slides = <<>> THEN <<>>
    ELSE Insert(SortedByOrder(SubSeq(slides, 1, Len(slides) - 1)),
                slides[Len(slides)])

\* [slide.html for slide in sorted_slides]
SlidesHtml(sorted_slides) ==
    [i \in 1..Len(sorted_slides) |-> sorted_slides[i].html]

----------------------------------------------------------------------------
(* Document assembler helpers: convert_html_to_pptx *)

\* Request metadata: none stands for Python's None, d is the dict otherwise.
NoneMetadata == [none |-> TRUE, d |-> EmptyDict]
Metadata(d) == [none |-> FALSE, d |-> d]

\* audit_context={}: the caller's metadata dropped
AuditContextDropped(metadata) == EmptyDict

\* metadata or {}
AuditContext(metadata) == IF metadata.none THEN EmptyDict ELSE metadata.d

LongTitle == "a title of 256 characters"

\* len(value) > 255: python-pptx refuses a core property that long
TooLong(value) == value = LongTitle

\* Presentation(), then slide_width and slide_height set from the configuration.
\* core_properties holds the fields assigned since the template was loaded.
NewPresentation(cfg) ==
    [slide_width |-> cfg.slide_width, slide_height |-> cfg.slide_height,
     core_properties |-> EmptyDict, slides |-> <<>>]

FreeCanvas == [free |-> TRUE]
IsFree(c) == "free" \in DOMAIN c

\* prs.core_properties.<key> = metadata.get(key, ''): an absent field
\* defaulted to the empty string
SetPropertyDefaulting(st, d, key) ==
    IF st.exc # NoExc THEN st
    ELSE IF TooLong(Get(d, key, ""))
    THEN [st EXCEPT !.exc = Exc("ValueError", "exceeded 255 char limit")]
    ELSE [st EXCEPT !.canvas.core_properties =
                        [k \in DOMAIN @ \cup {key} |->
                            IF k = key THEN Get(d, key, "") ELSE @[k]]]

\* if metadata.get(key): prs.core_properties.<key> = metadata[key]
\* on the pair (canvas, exception so far)
SetProperty(st, d, key) ==
    IF st.exc # NoExc \/ ~Truthy(Get(d, key, "")) THEN st
    ELSE IF TooLong(d[key])
    THEN [st EXCEPT !.exc = Exc("ValueError", "exceeded 255 char limit")]
    ELSE [st EXCEPT !.canvas.core_properties =
                        [k \in DOMAIN @ \cup {key} |->
                            IF k = key THEN d[key] ELSE @[k]]]

\* if metadata: title, author, subject in turn
SetMetadata(canvas, metadata) ==
    LET st0 == [canvas |-> canvas, exc |-> NoExc]
    IN IF metadata.none \/ DOMAIN metadata.d = {} THEN st0
       ELSE SetProperty(SetProperty(SetProperty(st0, metadata.d, "title"),
                                    metadata.d, "author"),
                        metadata.d, "subject")

ComplianceViolation(check) ==
    [success |-> FALSE,
     error |-> [message |-> "Constitutional AI compliance check failed",
                code |-> "COMPLIANCE_VIOLATION",
                details |-> get_compliance_summary(check)]]

\* except Exception as e
ConversionError(e) ==
    [success |-> FALSE,
     error |-> [message |-> e.message,
                code |-> "CONVERSION_ERROR",
                details |-> [exception_type |-> e.type]]]

\* prs.save(pptx_bytes): the bytes are the canvas as a reader gets it back
Success(canvas, slides_html, check) ==
    [success |-> TRUE,
     data |-> [buffer |-> canvas,
               slides_count |-> Len(slides_html),
               constitutional_compliance |-> check.score]]

\* a loop that stops one fragment early
LoopDoneEarly(i, slides_html) == i >= Len(slides_html)

\* for slide_html in slides_html: the loop is over once every fragment is taken
LoopDone(i, slides_html) == i > Len(slides_html)

NoResult == [pending |-> TRUE]
Raised(e) == [raised |-> e]
NoArgs == [slides_html |-> <<>>, metadata |-> NoneMetadata]
NoRequest == [slides |-> <<>>, metadata |-> NoneMetadata]
NoWorld == [compliant |-> TRUE, fault |-> "none"]
NoResponse == [status |-> 0]

\* one canvas kept for all requests
NewRefShared(heap) == 1

\* the smallest reference no live object has
NewRef(heap) == CHOOSE c \in CanvasRefs :
                    /\ IsFree(heap[c])
                    /\ \A b \in CanvasRefs : IsFree(heap[b]) => c <= b

----------------------------------------------------------------------------
(* The requests the model sends *)

SeqsUpTo(S, n) == UNION {[1..k -> S] : k \in 0..n}

SlideContents == [html : Fragments, order : Orders]
AllSlideLists == SeqsUpTo(SlideContents, MaxSlides)
FewSlideLists == {<<>>, <<[html |-> FragText, order |-> 1]>>}

MetaKeys == {"title", "author", "subject"}
MetaValues(key) ==
    CASE key = "title" -> {"", "Deck", LongTitle}
      [] key = "author" -> {"", "Ann"}
      [] key = "subject" -> {"", "Plan"}
AllMetaStrings == UNION {MetaValues(k) : k \in MetaKeys}
AllMetadata ==
    {NoneMetadata} \cup
    {Metadata(d) : d \in UNION {{f \in [K -> AllMetaStrings] :
                                    \A k \in K : f[k] \in MetaValues(k)} :
                                K \in SUBSET MetaKeys}}
FewMetadata == {NoneMetadata, Metadata([title |-> "Deck", author |-> "Ann"])}

\* What the collaborators do during one request: the gate's verdict, and the
\* library call that fails, if one does (the gate itself, Presentation(),
\* prs.save).
Worlds ==
    {[compliant |-> c, fault |-> f] :
        c \in BOOLEAN, f \in {"none", "canvas", "save"}}
    \cup {[compliant |-> TRUE, fault |-> "gate"]}

\* One request at a time: every slide list with a few metadata, and every
\* metadata with a few slide lists.
SerialInputs ==
    (((AllSlideLists \X FewMetadata) \cup (FewSlideLists \X AllMetadata))
        \X Worlds)

\* Several requests at once
ConcurrentInputs ==
    ({<<>>,
      <<[html |-> FragText, order |-> 1]>>,
      <<[html |-> FragTrunc, order |-> 2], [html |-> FragImgs, order |-> 1]>>}
     \X {Metadata([title |-> "Deck"])})
    \X {[compliant |-> TRUE, fault |-> "none"],
        [compliant |-> FALSE, fault |-> "none"]}

Inputs(w) == IF w = "serial" THEN SerialInputs ELSE ConcurrentInputs
ActiveSlots(w) == IF w = "serial" THEN {1} ELSE Slots

----------------------------------------------------------------------------
(* Construction *)

IdleSlots ==
    /\ pc = [r \in Slots |-> "idle"]
    /\ request = [r \in Slots |-> NoRequest]
    /\ world = [r \in Slots |-> NoWorld]
    /\ args = [r \in Slots |-> NoArgs]
    /\ prs = [r \in Slots |-> 0]
    /\ canvases = [c \in CanvasRefs |-> FreeCanvas]
    /\ idx = [r \in Slots |-> 0]
    /\ result = [r \in Slots |-> NoResult]
    /\ response = [r \in Slots |-> NoResponse]
    /\ compliance_check = [r \in Slots |-> [compliant |-> TRUE, score |-> ""]]
    /\ trace = [r \in Slots |-> <<>>]
    /\ gateCalls = [r \in Slots |-> <<>>]

\* no helper is called on its own while the server runs
NoCall == [fn |-> ""]
NotReturned == [pending |-> TRUE]

\* html_to_pptx_service = HTMLToPPTXService(), at import of main.py
Init ==
    /\ workload = "serial"
    /\ environ \in {DefaultEnviron, CustomEnviron}
    /\ config = HTMLToPPTXService_init(environ).value
    /\ IdleSlots
    /\ helper = NoCall
    /\ returned = NotReturned

InitConcurrent ==
    /\ workload = "concurrent"
    /\ environ = DefaultEnviron
    /\ config = HTMLToPPTXService_init(environ).value
    /\ IdleSlots
    /\ helper = NoCall
    /\ returned = NotReturned

----------------------------------------------------------------------------
(* The endpoint convert_to_pptx and the conversion it awaits *)

\* A POST /convert/pptx arrives in slot r
RequestArrives(r) ==
    /\ pc[r] = "idle"
    /\ r \in ActiveSlots(workload)
    /\ \E in \in Inputs(workload) :
        /\ request' = [request EXCEPT ![r] =
                          [slides |-> in[1][1], metadata |-> in[1][2]]]
        /\ world' = [world EXCEPT ![r] = in[2]]
    /\ pc' = [pc EXCEPT ![r] = "endpoint"]
    /\ UNCHANGED <<helper, returned, environ, config, workload, args, prs, canvases, idx, result,
                   response, compliance_check, trace, gateCalls>>

\* main.py: sort the slides by order and call the converter
convert_to_pptx_call(r) ==
    /\ pc[r] = "endpoint"
    /\ args' = [args EXCEPT ![r] =
                   [slides_html |-> SlidesHtml(SortedByOrder(request[r].slides)),
                    metadata |-> request[r].metadata]]
    /\ pc' = [pc EXCEPT ![r] = "gate"]
    /\ UNCHANGED <<helper, returned, environ, config, workload, request, world, prs, canvases, idx,
                   result, response, compliance_check, trace, gateCalls>>

\* a gate whose verdict is not looked at
RejectedNever(check) == FALSE

\* if not compliance_check.compliant
Rejected(check) == ~check.compliant

\* The frame of convert_html_to_pptx is left with res: its locals die with it
Return(r, res) ==
    /\ result' = [result EXCEPT ![r] = res]
    /\ canvases' = IF prs[r] = 0 THEN canvases
                   ELSE [canvases EXCEPT ![prs[r]] = FreeCanvas]
    /\ prs' = [prs EXCEPT ![r] = 0]
    /\ pc' = [pc EXCEPT ![r] = "respond"]

\* convert_html_to_pptx, up to the compliance decision (before the try)
convert_html_to_pptx_gate(r) ==
    LET call == [action |-> "convert_html_to_pptx",
                 data |-> [slides_count |-> Len(args[r].slides_html)],
                 audit_context |-> AuditContext(args[r].metadata)]
        check == check_constitutional_compliance(
                     call.action, call.data, call.audit_context, world[r])
    IN /\ pc[r] = "gate"
       /\ trace' = [trace EXCEPT ![r] = Append(@, "gate")]
       /\ gateCalls' = [gateCalls EXCEPT ![r] = Append(@, call)]
       /\ IF world[r].fault = "gate"
          THEN /\ Return(r, Raised(Exc("RuntimeError", "policy gate failed")))
               /\ UNCHANGED compliance_check
          ELSE /\ compliance_check' = [compliance_check EXCEPT ![r] = check]
               /\ IF Rejected(check)
                  THEN Return(r, ComplianceViolation(check))
                  ELSE /\ pc' = [pc EXCEPT ![r] = "create"]
                       /\ UNCHANGED <<result, canvases, prs>>
       /\ UNCHANGED <<helper, returned, environ, config, workload, request, world, args, idx,
                      response>>

\* try: prs = Presentation(), its size, its metadata
convert_html_to_pptx_create(r) ==
    LET st == SetMetadata(NewPresentation(config), args[r].metadata)
        ref == NewRef(canvases)
    IN /\ pc[r] = "create"
       /\ IF world[r].fault = "canvas"
          THEN /\ Return(r, ConversionError(
                       Exc("PackageNotFoundError", "default template")))
               /\ UNCHANGED <<idx, trace>>
          ELSE /\ trace' = [trace EXCEPT ![r] = Append(@, "canvas")]
               /\ IF st.exc # NoExc
                  THEN /\ Return(r, ConversionError(st.exc))
                       /\ UNCHANGED idx
                  ELSE /\ canvases' = [canvases EXCEPT ![ref] = st.canvas]
                       /\ prs' = [prs EXCEPT ![r] = ref]
                       /\ idx' = [idx EXCEPT ![r] = 1]
                       /\ pc' = [pc EXCEPT ![r] = "loop"]
                       /\ UNCHANGED result
       /\ UNCHANGED <<helper, returned, environ, config, workload, request, world, args, response,
                      compliance_check, gateCalls>>

\* one turn of: for slide_html in slides_html: parse, then render
convert_html_to_pptx_slide(r) ==
    LET parsed == _parse_html_slide(args[r].slides_html[idx[r]])
        slide_data == parsed.value
        out == _add_slide_content(canvases[prs[r]], slide_data, config)
    IN /\ pc[r] = "loop"
       /\ ~LoopDone(idx[r], args[r].slides_html)
       /\ IF parsed.exc # NoExc
          THEN /\ trace' = [trace EXCEPT ![r] = Append(@, "parse")]
               /\ Return(r, ConversionError(parsed.exc))
               /\ UNCHANGED idx
          ELSE /\ trace' = [trace EXCEPT ![r] = @ \o <<"parse", "render">>]
               /\ IF out.exc # NoExc
                  THEN /\ Return(r, ConversionError(out.exc))
                       /\ UNCHANGED idx
                  ELSE /\ canvases' = [canvases EXCEPT ![prs[r]] = out.canvas]
                       /\ idx' = [idx EXCEPT ![r] = @ + 1]
                       /\ UNCHANGED <<result, prs, pc>>
       /\ UNCHANGED <<helper, returned, environ, config, workload, request, world, args, response,
                      compliance_check, gateCalls>>

\* prs.save and the success result
convert_html_to_pptx_save(r) ==
    /\ pc[r] = "loop"
    /\ LoopDone(idx[r], args[r].slides_html)
    /\ IF world[r].fault = "save"
       THEN /\ Return(r, ConversionError(Exc("OSError", "cannot write")))
            /\ UNCHANGED trace
       ELSE /\ Return(r, Success(canvases[prs[r]], args[r].slides_html,
                                 compliance_check[r]))
            /\ trace' = [trace EXCEPT ![r] = Append(@, "save")]
    /\ UNCHANGED <<helper, returned, environ, config, workload, request, world, args, idx,
                   response, compliance_check, gateCalls>>

\* main.py: the response for the result (both Accept branches carry the same
\* buffer and counts), HTTPException(500) for a failure result, and the
\* handler's except for an exception of the converter
convert_to_pptx_respond(r) ==
    /\ pc[r] = "respond"
    /\ response' = [response EXCEPT ![r] =
          IF "raised" \in DOMAIN result[r]
          THEN [status |-> 500,
                detail |-> [message |-> result[r].raised.message,
                            code |-> "INTERNAL_SERVER_ERROR"]]
          ELSE IF ~result[r].success
          THEN [status |-> 500, detail |-> result[r].error]
          ELSE [status |-> 200, content |-> result[r].data.buffer,
                slides_count |-> result[r].data.slides_count]]
    /\ pc' = [pc EXCEPT ![r] = "responded"]
    /\ UNCHANGED <<helper, returned, environ, config, workload, request, world, args, prs,
                   canvases, idx, result, compliance_check, trace, gateCalls>>

\* The response is on the wire; the slot takes the next request
ResponseSent(r) ==
    /\ pc[r] = "responded"
    /\ pc' = [pc EXCEPT ![r] = "idle"]
    /\ request' = [request EXCEPT ![r] = NoRequest]
    /\ world' = [world EXCEPT ![r] = NoWorld]
    /\ args' = [args EXCEPT ![r] = NoArgs]
    /\ idx' = [idx EXCEPT ![r] = 0]
    /\ result' = [result EXCEPT ![r] = NoResult]
    /\ response' = [response EXCEPT ![r] = NoResponse]
    /\ compliance_check' = [compliance_check EXCEPT ![r] =
                               [compliant |-> TRUE, score |-> ""]]
    /\ trace' = [trace EXCEPT ![r] = <<>>]
    /\ gateCalls' = [gateCalls EXCEPT ![r] = <<>>]
    /\ UNCHANGED <<helper, returned, environ, config, workload, prs, canvases>>

Next ==
    \E r \in Slots :
        \/ RequestArrives(r)
        \/ convert_to_pptx_call(r)
        \/ convert_html_to_pptx_gate(r)
        \/ convert_html_to_pptx_create(r)
        \/ convert_html_to_pptx_slide(r)
        \/ convert_html_to_pptx_save(r)
        \/ convert_to_pptx_respond(r)
        \/ ResponseSent(r)

Spec == Init /\ [][Next]_vars
SpecConcurrent == InitConcurrent /\ [][Next]_vars

----------------------------------------------------------------------------
(* The helpers of the service, each called on its own *)

\* str(n) and the two-digit hexadecimal of a byte, in the given digits
RECURSIVE FormatInt(_)
FormatInt(n) ==
    IF n < 10 THEN Char(DigitChars, n + 1)
    ELSE FormatInt(n \div 10) \o Char(DigitChars, (n % 10) + 1)

HexByte(n, hi, lo) == Char(hi, (n \div 16) + 1) \o Char(lo, (n % 16) + 1)

RECURSIVE Upper(_)
Upper(s) ==
    IF s = "" THEN ""
    ELSE LET c == Char(s, 1)
         IN (IF c \in CharsOf(LowerChars)
             THEN Char(UpperChars, IndexOf(c, LowerChars) + 1) ELSE c)
            \o Upper(Tail(s))

Capitalize(s) == Upper(Char(s, 1)) \o Tail(s)

\* "rgb(r,g,b)" with whitespace w[1] around the opening parenthesis, w[2]
\* before and w[3] behind each comma, and w[3] before the closing one
RgbString(r, g, b, w) ==
    "rgb" \o w[1] \o "(" \o w[1] \o FormatInt(r) \o w[2] \o "," \o w[3]
    \o FormatInt(g) \o w[2] \o "," \o w[3] \o FormatInt(b) \o w[3] \o ")"

\* "#RRGGBB" with the high digits taken from c[1] and the low ones from c[2]
HexString(r, g, b, c) ==
    "#" \o HexByte(r, c[1], c[2]) \o HexByte(g, c[1], c[2])
    \o HexByte(b, c[1], c[2])

RgbBytes == {0, 7, 128, 255}
HexBytes == {0, 10, 171, 255}
WsChoices ==
    {<<"", "", "">>, <<"", "", " ">>, <<" ", " ", " ">>, <<"\t", "", "  ">>}
HexCases == {UpperHexChars, LowerHexChars} \X {UpperHexChars, LowerHexChars}

RgbInputs ==
    {RgbString(r, g, b, w) : r \in RgbBytes, g \in RgbBytes, b \in RgbBytes,
                             w \in WsChoices}
HexInputs ==
    {HexString(r, g, b, c) : r \in HexBytes, g \in HexBytes, b \in HexBytes,
                             c \in HexCases}
ColorNames == DOMAIN color_map
NameInputs == UNION {{n, Upper(n), Capitalize(n)} : n \in ColorNames}

\* strings no form takes
OtherInputs ==
    {"", "not-a-color", "reddish", "re", " red", "red ", "darkred", "red;",
     "#FF80", "#GG0000", "#fff", "FF8000", "rgb(1,2)", "rgb(1,2,3", "RGB(1,2,3)",
     "rgb(1.5,2,3)", "rgb(-1,2,3)", "rgb(10%,2,3)", "rgba(1,2,3,0.5)",
     " rgb(1,2,3)", "transparent"}

\* strings a form takes by their start, and numbers no byte holds
LooseInputs ==
    {"rgb(1,2,3) !important", "#FF8000FF", "#ff8000 ", "rgb(007,08,000)",
     "rgb(300, 0, 0)", "rgb(0,256,0)", "rgb(0,0,1000)"}

ColorInputs ==
    {NoneStr} \cup
    {Str(s) : s \in RgbInputs \cup HexInputs \cup NameInputs \cup OtherInputs
                    \cup LooseInputs}

\* no request is served while a helper is called on its own
InitCall(fn, arguments) ==
    /\ workload = fn
    /\ environ = DefaultEnviron
    /\ config = HTMLToPPTXService_init(environ).value
    /\ IdleSlots
    /\ helper \in {[fn |-> fn, arg |-> a] : a \in arguments}
    /\ returned = NotReturned

InitColor == InitCall("_extract_rgb_color", ColorInputs)

extract_rgb_color_call ==
    /\ helper.fn = "_extract_rgb_color"
    /\ returned = NotReturned
    /\ returned' = _extract_rgb_color(helper.arg)
    /\ UNCHANGED <<helper, environ, config, workload, pc, request, world, args,
                   prs, canvases, idx, result, response, compliance_check,
                   trace, gateCalls>>

NextColor == extract_rgb_color_call

SpecColor == InitColor /\ [][NextColor]_vars

\* The elements the parsed fragments are made of: headings with padded,
\* plain and empty text, body blocks that repeat a heading's text, blank
\* blocks, images with and without src and alt, and a tag the parser skips
ParserElements ==
    {El("h1", " T ", EmptyDict), El("h2", "U", EmptyDict), El("h1", "", EmptyDict),
     El("p", "T", EmptyDict), El("p", " B\n", EmptyDict), El("li", "  ", EmptyDict),
     El("h3", "U", EmptyDict), El("div", "x", EmptyDict),
     El("img", "", [src |-> UrlOk, alt |-> " d "]), El("img", "", [src |-> UrlOk]),
     El("img", "", [alt |-> "x"]), El("img", "", [src |-> "", alt |-> "y"])}

\* an inline style that declares background-color: value, the declaration
\* behind before, whitespace ws in front of the value, and after behind it
StyleString(before, ws, value, after) ==
    before \o "background-color:" \o ws \o value \o after

StyleBefore == {"", "color: red; "}
StyleWs == {"", " "}
StyleAfter == {"", ";", "; margin: 0"}
BgValues ==
    {"rgb(255, 255, 255)", "#FF8000", "red", "red ", "Gray", "not-a-color",
     "rgb(300, 0, 0)"}
DeclaringStyles ==
    {StyleString(x, w, v, y) :
        x \in StyleBefore, w \in StyleWs, v \in BgValues, y \in StyleAfter}

\* inline styles that declare no background-color value
OtherStyles ==
    {"", "color: red", "background: red", "BACKGROUND-COLOR: red",
     "background-color:", "background-color:;", "background-color", "red"}

BodyElements ==
    {El("body", "", EmptyDict)} \cup
    {El("body", "", [style |-> st]) : st \in DeclaringStyles \cup OtherStyles}
StyledLeads == {<<>>, <<El("h1", "T", EmptyDict)>>}
StyledFragments == {lead \o <<b>> : lead \in StyledLeads, b \in BodyElements}

ParserInputs ==
    Fragments \cup SeqsUpTo(ParserElements, MaxElements) \cup StyledFragments

InitParser == InitCall("_parse_html_slide", ParserInputs)

parse_html_slide_call ==
    /\ helper.fn = "_parse_html_slide"
    /\ returned = NotReturned
    /\ returned' = _parse_html_slide(helper.arg)
    /\ UNCHANGED <<helper, environ, config, workload, pc, request, world, args,
                   prs, canvases, idx, result, response, compliance_check,
                   trace, gateCalls>>

NextParser == parse_html_slide_call

SpecParser == InitParser /\ [][NextParser]_vars

\* The slide models the layout is called with: with and without title,
\* body and background, and up to two images of every shape, one of them
\* unresolved
LayoutUrls == {UrlOk, UrlPortrait, UrlSquare, UrlOdd, UrlNearSquare, Url404}
LayoutInputs ==
    [title : {"", "T"},
     body : {"", "B", "B\nC"},
     images : SeqsUpTo({[src |-> u, alt |-> ""] : u \in LayoutUrls}, 2),
     background_color : {NoColor, <<255, 0, 0>>}]

InitLayout ==
    /\ workload = "_add_slide_content"
    /\ environ \in {DefaultEnviron, CustomEnviron, NarrowEnviron, LowEnviron}
    /\ config = HTMLToPPTXService_init(environ).value
    /\ IdleSlots
    /\ helper \in {[fn |-> "_add_slide_content", arg |-> a] : a \in LayoutInputs}
    /\ returned = NotReturned

add_slide_content_call ==
    /\ helper.fn = "_add_slide_content"
    /\ returned = NotReturned
    /\ returned' = _add_slide_content(NewPresentation(config), helper.arg, config)
    /\ UNCHANGED <<helper, environ, config, workload, pc, request, world, args,
                   prs, canvases, idx, result, response, compliance_check,
                   trace, gateCalls>>

NextLayout == add_slide_content_call

SpecLayout == InitLayout /\ [][NextLayout]_vars

\* The environments the service is constructed in: those above, and each
\* numeric setting in turn set to a number, a signed or padded one, zero,
\* infinity, not-a-number, and strings that are no number
DimensionKeys ==
    {"PPTX_SLIDE_WIDTH", "PPTX_SLIDE_HEIGHT", "PPTX_MAX_IMAGE_WIDTH",
     "PPTX_MAX_IMAGE_HEIGHT"}
IntegerKeys ==
    {"PPTX_TITLE_FONT_SIZE", "PPTX_BODY_FONT_SIZE", "PPTX_IMAGE_QUALITY",
     "HTTP_TIMEOUT"}
NotNumbers == {"abc", "", "7,5"}
DimensionValues ==
    {"10", "7.5", "0.5", "1.25", ".5", "5.", "+8", " 6 ", "0", "-5", "-0.5",
     "inf", "nan"} \cup NotNumbers
IntegerValues == {"44", "+5", " 7 ", "0", "-3", "12.5"} \cup NotNumbers
ConfigEnvirons ==
    {DefaultEnviron, CustomEnviron, NarrowEnviron}
    \cup {[k \in {key} |-> v] : key \in DimensionKeys, v \in DimensionValues}
    \cup {[k \in {key} |-> v] : key \in IntegerKeys, v \in IntegerValues}

\* html_to_pptx_service is not bound before the constructor has returned
NoConfig == [constructed |-> FALSE]

InitConfig ==
    /\ workload = "__init__"
    /\ environ \in ConfigEnvirons
    /\ config = NoConfig
    /\ IdleSlots
    /\ helper = [fn |-> "__init__", arg |-> environ]
    /\ returned = NotReturned

\* HTMLToPPTXService(): the instance holds the fields when the constructor
\* returns; when it raises there is no instance
HTMLToPPTXService_call ==
    /\ helper.fn = "__init__"
    /\ returned = NotReturned
    /\ returned' = HTMLToPPTXService_init(environ)
    /\ config' = IF returned'.exc = NoExc THEN returned'.value ELSE NoConfig
    /\ UNCHANGED <<helper, environ, workload, pc, request, world, args, prs,
                   canvases, idx, result, response, compliance_check, trace,
                   gateCalls>>

NextConfig == HTMLToPPTXService_call

SpecConfig == InitConfig /\ [][NextConfig]_vars

----------------------------------------------------------------------------
(* What the claims speak of *)

\* convert_html_to_pptx has returned to, or raised into, the endpoint
Returned(r) == pc[r] \in {"respond", "responded"}
HasRaised(r) == "raised" \in DOMAIN result[r]
HasResult(r) == "success" \in DOMAIN result[r]
Succeeded(r) == HasResult(r) /\ result[r].success
Failed(r) == HasResult(r) /\ ~result[r].success

\* The slide a fragment renders to on a canvas of its own
RenderedAlone(html) ==
    _add_slide_content(NewPresentation(config), _parse_html_slide(html).value,
                       config).canvas.slides[1]

Count(seq, x) == Cardinality({i \in 1..Len(seq) : seq[i] = x})

\* No collaborator fails in this request but, possibly, the image fetches:
\* the gate accepts, the canvas library works, the metadata is storable.
OnlyImagesMayFail(r) ==
    /\ world[r].compliant
    /\ world[r].fault = "none"
    /\ \A k \in DOMAIN request[r].metadata.d : ~TooLong(request[r].metadata.d[k])

----------------------------------------------------------------------------
(* C1 *)

\* C1: when the Policy Gate reports non-compliant, convert returns a failure
\* with code COMPLIANCE_VIOLATION carrying the gate's summary, and in that
\* run no canvas is created, no fragment parsed, no slide rendered and no
\* document bytes returned: the gate call is the only call made.
C1_RejectionShortCircuits ==
    \A r \in Slots :
        (~world[r].compliant /\ pc[r] \notin {"idle", "endpoint", "gate"}) =>
            /\ Returned(r)
            /\ Failed(r)
            /\ result[r].error.code = "COMPLIANCE_VIOLATION"
            /\ result[r].error.details = [compliant |-> FALSE, score |-> "0.5"]
            /\ "data" \notin DOMAIN result[r]
            /\ trace[r] = <<"gate">>
            /\ prs[r] = 0
            /\ "canvas" \notin {trace[r][i] : i \in 1..Len(trace[r])}
            /\ pc[r] = "responded" => "content" \notin DOMAIN response[r]

C1_Witness ==
    \E r \in Slots :
        /\ pc[r] = "responded"
        /\ ~world[r].compliant
        /\ Len(request[r].slides) = 2
        /\ ~request[r].metadata.none

----------------------------------------------------------------------------
(* C2 *)

\* C2: in every conversion request the Policy Gate is called exactly once,
\* before the canvas is created and before any fragment is parsed or
\* rendered, with action "convert_html_to_pptx", data holding the number of
\* input fragments, and the caller's metadata (the empty mapping when the
\* caller gave none) as audit context.
C2_GateCalledOnceFirst ==
    \A r \in Slots :
        /\ Len(gateCalls[r]) <= 1
        /\ Count(trace[r], "gate") = Len(gateCalls[r])
        /\ pc[r] \notin {"idle", "endpoint", "gate"} => Len(gateCalls[r]) = 1
        /\ trace[r] # <<>> => trace[r][1] = "gate"
        /\ \A i \in 1..Len(gateCalls[r]) :
            /\ gateCalls[r][i].action = "convert_html_to_pptx"
            /\ gateCalls[r][i].data = [slides_count |-> Len(request[r].slides)]
            /\ gateCalls[r][i].audit_context =
                  IF request[r].metadata.none THEN EmptyDict
                  ELSE request[r].metadata.d

C2_Witness ==
    \E r \in Slots :
        /\ pc[r] = "loop"
        /\ idx[r] = 2
        /\ Len(gateCalls[r]) = 1
        /\ gateCalls[r][1].audit_context = [title |-> "Deck", author |-> "Ann"]
        /\ gateCalls[r][1].data.slides_count = 2

----------------------------------------------------------------------------
(* C3 *)

\* C3: for every input list of N >= 0 valid HTML fragments accepted by the
\* gate, convert returns success with slides_count = N and a document of
\* exactly N slides, slide i being the rendering of input fragment i.
C3_AcceptedFragmentsSucceed ==
    \A r \in Slots :
        (Returned(r) /\ OnlyImagesMayFail(r)) =>
            /\ Succeeded(r)
            /\ result[r].data.slides_count = Len(args[r].slides_html)
            /\ Len(result[r].data.buffer.slides) = Len(args[r].slides_html)
            /\ \A i \in 1..Len(args[r].slides_html) :
                  result[r].data.buffer.slides[i] =
                      RenderedAlone(args[r].slides_html[i])

\* The request whose only slide holds an image that downloads and then
\* fails to load: the conversion fails where C3 promises success.
C3_Reached ==
    \E r \in Slots :
        /\ Returned(r)
        /\ OnlyImagesMayFail(r)
        /\ Failed(r)

----------------------------------------------------------------------------
(* C4 *)

\* C4: each completed _add_slide_content call appends exactly one slide at
\* the end of the canvas's slide sequence, whatever the model holds, and
\* leaves every slide rendered before unchanged; after k fragments the
\* canvas holds exactly k slides.
C4_RenderAppendsOneSlide ==
    [][\A r \in Slots :
          (pc[r] = "loop" /\ pc'[r] = "loop" /\ idx'[r] = idx[r] + 1) =>
              LET old == canvases[prs[r]].slides
                  new == canvases'[prs'[r]].slides
              IN /\ Len(new) = Len(old) + 1
                 /\ SubSeq(new, 1, Len(old)) = old
                 /\ Len(old) = idx[r] - 1
                 /\ Len(new) = idx'[r] - 1]_vars

\* two fragments rendered, the second with nothing on it
C4_Witness ==
    \E r \in Slots :
        /\ pc[r] = "loop"
        /\ idx[r] = 3
        /\ Len(canvases[prs[r]].slides) = 2
        /\ canvases[prs[r]].slides[2].shapes = <<>>
        /\ Len(canvases[prs[r]].slides[1].shapes) = 2

----------------------------------------------------------------------------
(* C5 *)

\* the images of a fragment that resolution gives up on
Unresolvable(url) ==
    \/ Fetch(url).raises
    \/ Fetch(url).status >= 400
    \/ ~Fetch(url).identified
    \/ ~Fetch(url).loads

HasUnresolvable(html) ==
    \E i \in 1..Len(html) :
        /\ html[i].tag = "img"
        /\ "src" \in DOMAIN html[i].attrs
        /\ Unresolvable(html[i].attrs.src)

\* C5: for every image reference whose fetch fails, times out, returns a
\* non-success status or whose payload cannot be decoded, the slide is
\* rendered without that image, its title, body and remaining images are
\* still processed, and the conversion returns success with the expected
\* slide count.
C5_ImageFailureIsLocal ==
    \A r \in Slots :
        (/\ Returned(r)
         /\ OnlyImagesMayFail(r)
         /\ \A i \in 1..Len(args[r].slides_html) :
               _parse_html_slide(args[r].slides_html[i]).exc = NoExc
         /\ \E i \in 1..Len(args[r].slides_html) :
               HasUnresolvable(args[r].slides_html[i])) =>
            /\ Succeeded(r)
            /\ result[r].data.slides_count = Len(request[r].slides)
            /\ \A i \in 1..Len(args[r].slides_html) :
                  LET html == args[r].slides_html[i]
                      shapes == result[r].data.buffer.slides[i].shapes
                  IN \A j \in 1..Len(html) :
                        (/\ html[j].tag = "img"
                         /\ "src" \in DOMAIN html[j].attrs
                         /\ ~Unresolvable(html[j].attrs.src)) =>
                            \E k \in 1..Len(shapes) :
                                /\ shapes[k].kind = "picture"
                                /\ shapes[k].image = html[j].attrs.src

\* 404, timeout and a payload PIL does not identify are skipped, and the
\* image behind them is still placed
C5_Skipped ==
    \E r \in Slots :
        /\ Succeeded(r)
        /\ Len(args[r].slides_html) = 1
        /\ args[r].slides_html[1] = FragImgs
        /\ Len(result[r].data.buffer.slides[1].shapes) = 2

----------------------------------------------------------------------------
(* C6 *)

\* C6: callers never receive a partially rendered document: every result of
\* convert is a success whose document holds the slides of all input
\* fragments, or a failure that carries an error and no document bytes,
\* also when the failure comes after some slides were rendered.
C6_NoPartialDocument ==
    \A r \in Slots :
        /\ Succeeded(r) =>
              /\ Len(result[r].data.buffer.slides) = Len(request[r].slides)
              /\ \A i \in 1..Len(args[r].slides_html) :
                    result[r].data.buffer.slides[i] =
                        RenderedAlone(args[r].slides_html[i])
        /\ Failed(r) =>
              /\ "data" \notin DOMAIN result[r]
              /\ result[r].error.code \in
                    {"COMPLIANCE_VIOLATION", "CONVERSION_ERROR"}
        /\ pc[r] = "responded" =>
              IF Succeeded(r)
              THEN response[r].content = result[r].data.buffer
              ELSE "content" \notin DOMAIN response[r]

\* a failure after a first slide was rendered
C6_Witness ==
    \E r \in Slots :
        /\ pc[r] = "responded"
        /\ Failed(r)
        /\ Count(trace[r], "render") = 2

----------------------------------------------------------------------------
(* C7 *)

\* C7: every failure in a request other than a gate rejection or a locally
\* recovered image failure is reported as a failure result with code
\* CONVERSION_ERROR, the failure's message and its exception class; convert
\* never raises to its caller at any step (gate call, canvas creation,
\* metadata, parse, render, serialization).
C7_NeverRaises ==
    \A r \in Slots :
        Returned(r) =>
            /\ ~HasRaised(r)
            /\ HasResult(r)
            /\ (Failed(r) /\ world[r].compliant) =>
                  /\ result[r].error.code = "CONVERSION_ERROR"
                  /\ result[r].error.message # ""
                  /\ result[r].error.details.exception_type # ""

\* the failures inside the try block are reported as CONVERSION_ERROR
C7_Reported ==
    \E r \in Slots :
        /\ Failed(r)
        /\ world[r].fault = "save"
        /\ result[r].error.code = "CONVERSION_ERROR"

----------------------------------------------------------------------------
(* C8 *)

Supplied(r, key) ==
    ~request[r].metadata.none /\ key \in DOMAIN request[r].metadata.d

\* C8 as claimed: a field supplied on input is held exactly by the produced
\* document, whatever its value; an absent field is left unset.
C8_SuppliedIsStored ==
    \A r \in Slots :
        Succeeded(r) =>
            \A key \in MetaKeys :
                LET props == result[r].data.buffer.core_properties
                IN IF Supplied(r, key)
                   THEN key \in DOMAIN props
                        /\ props[key] = request[r].metadata.d[key]
                   ELSE key \notin DOMAIN props

\* C8: for each of title, author and subject independently: a field supplied
\* with a non-empty value is held exactly by the produced document; a field
\* that is absent or supplied empty (or absent metadata) is left unset, not
\* set to the empty string; the other fields are unaffected.
C8_NonEmptyIsStored ==
    \A r \in Slots :
        Succeeded(r) =>
            \A key \in MetaKeys :
                LET props == result[r].data.buffer.core_properties
                IN IF Supplied(r, key) /\ request[r].metadata.d[key] # ""
                   THEN key \in DOMAIN props
                        /\ props[key] = request[r].metadata.d[key]
                   ELSE key \notin DOMAIN props

\* a document with its author set, its title supplied empty and its subject
\* not supplied
C8_Witness ==
    \E r \in Slots :
        /\ Succeeded(r)
        /\ request[r].metadata.d = [title |-> "", author |-> "Ann"]
        /\ result[r].data.buffer.core_properties = [author |-> "Ann"]

----------------------------------------------------------------------------
(* C9 *)

\* convert_html_to_pptx run from start to end with nothing else running:
\* the for loop over the fragments, then the function as a whole
RECURSIVE RenderAll(_, _, _, _)
RenderAll(canvas, slides_html, i, cfg) ==
    IF i > Len(slides_html) THEN [canvas |-> canvas, exc |-> NoExc]
    ELSE LET parsed == _parse_html_slide(slides_html[i])
             out == _add_slide_content(canvas, parsed.value, cfg)
         IN IF parsed.exc # NoExc THEN [canvas |-> canvas, exc |-> parsed.exc]
            ELSE IF out.exc # NoExc THEN out
            ELSE RenderAll(out.canvas, slides_html, i + 1, cfg)

RunAlone(slides_html, metadata, w, cfg) ==
    LET check == check_constitutional_compliance(
                     "convert_html_to_pptx",
                     [slides_count |-> Len(slides_html)],
                     AuditContext(metadata), w)
        st == SetMetadata(NewPresentation(cfg), metadata)
        out == RenderAll(st.canvas, slides_html, 1, cfg)
    IN IF w.fault = "gate"
       THEN Raised(Exc("RuntimeError", "policy gate failed"))
       ELSE IF ~check.compliant THEN ComplianceViolation(check)
       ELSE IF w.fault = "canvas"
       THEN ConversionError(Exc("PackageNotFoundError", "default template"))
       ELSE IF st.exc # NoExc THEN ConversionError(st.exc)
       ELSE IF out.exc # NoExc THEN ConversionError(out.exc)
       ELSE IF w.fault = "save"
       THEN ConversionError(Exc("OSError", "cannot write"))
       ELSE Success(out.canvas, slides_html, check)

\* C9: concurrent requests served by the one service instance are
\* independent: each builds a canvas of its own, the canvas and the result
\* of a request are under every interleaving what they are when it runs
\* alone, and no conversion step writes the configuration set at
\* construction.
C9_RequestsIndependent ==
    /\ config = HTMLToPPTXService_init(environ).value
    /\ \A r, q \in Slots :
          (r # q /\ prs[r] # 0) => prs[r] # prs[q]
    /\ \A r \in Slots :
          /\ pc[r] = "loop" =>
                /\ prs[r] # 0
                /\ ~IsFree(canvases[prs[r]])
                /\ canvases[prs[r]] =
                      RenderAll(SetMetadata(NewPresentation(config),
                                            args[r].metadata).canvas,
                                SubSeq(args[r].slides_html, 1, idx[r] - 1),
                                1, config).canvas
          /\ Returned(r) =>
                result[r] = RunAlone(
                    SlidesHtml(SortedByOrder(request[r].slides)),
                    request[r].metadata, world[r], config)

\* two conversions in their loops at once, one of them a slide ahead
C9_Witness ==
    \E r, q \in Slots :
        /\ r # q
        /\ pc[r] = "loop" /\ idx[r] = 2
        /\ pc[q] = "loop" /\ idx[q] = 1
        /\ Len(args[q].slides_html) = 2

----------------------------------------------------------------------------
(* C10 *)

\* p lists the indices of slides in ascending order of 'order', slides of
\* equal order in request order
StableOrder(slides, p) ==
    /\ \A i, j \in 1..Len(slides) : (i # j) => p[i] # p[j]
    /\ \A i, j \in 1..Len(slides) :
          (i < j) =>
              \/ slides[p[i]].order < slides[p[j]].order
              \/ /\ slides[p[i]].order = slides[p[j]].order
                 /\ p[i] < p[j]

\* C10: the endpoint passes the request's slides to the converter in
\* ascending 'order', whatever order they arrive in, slides of equal
\* 'order' keeping their request order; the produced document has one slide
\* per request slide in that order.
C10_SlidesSortedByOrder ==
    \A r \in Slots :
        pc[r] \notin {"idle", "endpoint"} =>
            LET slides == request[r].slides
                n == Len(slides)
            IN \E p \in [1..n -> 1..n] :
                /\ StableOrder(slides, p)
                /\ Len(args[r].slides_html) = n
                /\ \A i \in 1..n : args[r].slides_html[i] = slides[p[i]].html
                /\ (pc[r] = "responded" /\ response[r].status = 200) =>
                      /\ Len(response[r].content.slides) = n
                      /\ \A i \in 1..n :
                            response[r].content.slides[i] =
                                RenderedAlone(slides[p[i]].html)

\* two different slides that arrive in descending order, and a document made
C10_Witness ==
    \E r \in Slots :
        /\ pc[r] = "responded"
        /\ response[r].status = 200
        /\ Len(request[r].slides) = 2
        /\ request[r].slides[1].order > request[r].slides[2].order
        /\ request[r].slides[1].html = FragText
        /\ request[r].slides[2].html = FragImgs
        /\ response[r].content.slides[2] = RenderedAlone(FragText)

----------------------------------------------------------------------------
(* C11 *)

ParserCalled == helper.fn = "_parse_html_slide" /\ returned # NotReturned
Parsed == ParserCalled /\ returned.exc = NoExc

\* C11: _parse_html_slide never fails: for every fragment, whatever its
\* elements and attribute values, the inline style text included, it
\* returns a slide model and raises nothing.
C11_ParseNeverRaises ==
    ParserCalled =>
        /\ returned.exc = NoExc
        /\ DOMAIN returned.value = {"title", "body", "images", "background_color"}

\* the fragment whose body style declares rgb(300, 0, 0): the parser raises
\* the ValueError of RGBColor
C11_Reached ==
    /\ ParserCalled
    /\ helper.arg = FragBadBg
    /\ returned.exc.type = "ValueError"

----------------------------------------------------------------------------
(* C12 *)

ColorReturned ==
    helper.fn = "_extract_rgb_color" /\ returned # NotReturned

\* C12: for every string rgb(r,g,b) with r, g, b in 0..255, with or without
\* whitespace around the parentheses and commas, _extract_rgb_color returns
\* exactly the triple (r, g, b).
C12_RgbGivesTriple ==
    ColorReturned =>
        \A r \in RgbBytes, g \in RgbBytes, b \in RgbBytes, w \in WsChoices :
            helper.arg = Str(RgbString(r, g, b, w)) =>
                returned = Returns(<<r, g, b>>)

\* rgb with whitespace at every place the pattern allows, returned as a triple
C12_Witness ==
    /\ ColorReturned
    /\ helper.arg = Str("rgb\t(\t7,  128,  255  )")
    /\ returned.value = <<7, 128, 255>>

----------------------------------------------------------------------------
(* C13 *)

\* C13: for every string of '#' and six hexadecimal digits, in upper, lower
\* or mixed case, _extract_rgb_color returns the triple of its three
\* two-digit bytes, which is what it returns for the string rgb(r,g,b) of
\* the same three values.
C13_HexEqualsRgb ==
    ColorReturned =>
        \A r \in HexBytes, g \in HexBytes, b \in HexBytes, c \in HexCases :
            helper.arg = Str(HexString(r, g, b, c)) =>
                /\ returned = Returns(<<r, g, b>>)
                /\ returned =
                      _extract_rgb_color(
                          Str(RgbString(r, g, b, <<"", "", "">>)))

\* a mixed-case hex string
C13_Witness ==
    /\ ColorReturned
    /\ helper.arg = Str("#aB0AfF")
    /\ returned.value = <<171, 10, 255>>

----------------------------------------------------------------------------
(* C14 *)

----------------------------------------------------------------------------
(* C15 *)

Headings(html) == {i \in 1..Len(html) : html[i].tag \in {"h1", "h2"}}

\* the smallest member of a non-empty set of indices
First(I) == CHOOSE i \in I : \A j \in I : i <= j

\* the k-th member of a set of indices, in ascending order
Kth(I, k) == CHOOSE i \in I : Cardinality({j \in I : j <= i}) = k

----------------------------------------------------------------------------
(* C16 *)

\* the elements whose text goes into the body, given the title
BodyBlocks(html, title) ==
    {i \in 1..Len(html) :
        /\ html[i].tag \in {"p", "li", "h3", "h4", "h5", "h6"}
        /\ Strip(html[i].text) # ""
        /\ Strip(html[i].text) # title}

----------------------------------------------------------------------------
(* C17 *)

ImgsWithSrc(html) ==
    {i \in 1..Len(html) :
        /\ html[i].tag = "img"
        /\ "src" \in DOMAIN html[i].attrs
        /\ html[i].attrs.src # ""}

\* C17: the images are one reference per img element that has a source URL,
\* in document order, source and alt text as written (alt empty when the
\* element has none), two elements with one URL giving two references; an
\* img element without src gives none.
C17_OneRefPerImgWithSrc ==
    Parsed =>
        LET html == helper.arg
            I == ImgsWithSrc(html)
            images == returned.value.images
        IN /\ Len(images) = Cardinality(I)
           /\ \A k \in 1..Len(images) :
                 LET e == html[Kth(I, k)]
                 IN /\ images[k].src = e.attrs.src
                    /\ images[k].alt =
                          IF "alt" \in DOMAIN e.attrs THEN e.attrs.alt ELSE ""

\* two img elements with the same URL around one without src
C17_Witness ==
    /\ Parsed
    /\ helper.arg = <<El("img", "", [src |-> UrlOk, alt |-> " d "]),
                      El("img", "", [alt |-> "x"]),
                      El("img", "", [src |-> UrlOk])>>
    /\ returned.value.images =
          <<[src |-> UrlOk, alt |-> " d "], [src |-> UrlOk, alt |-> ""]>>

----------------------------------------------------------------------------
(* C18 *)

\* C18: the background colour of a parsed slide is _extract_rgb_color of
\* the value of the background-color declaration in the inline style of the
\* body element, the value ending at the next ';' or at the end of the
\* style; it is absent when the fragment has no body element, the element
\* no style, the style no such declaration, or the value is no colour the
\* extraction knows.
C18_BackgroundFromBodyStyle ==
    Parsed =>
        LET html == helper.arg
            bg == returned.value.background_color
        IN /\ (\A i \in 1..Len(html) : html[i].tag # "body") => bg = NoColor
           /\ \A lead \in StyledLeads :
                 /\ html = lead \o <<El("body", "", EmptyDict)>> => bg = NoColor
                 /\ \A st \in OtherStyles :
                       html = lead \o <<El("body", "", [style |-> st])>> =>
                           bg = NoColor
                 /\ \A x \in StyleBefore, w \in StyleWs, v \in BgValues,
                          y \in StyleAfter :
                       html = lead \o <<El("body", "", [style |->
                                              StyleString(x, w, v, y)])>> =>
                           /\ bg = _extract_rgb_color(Str(v)).value
                           /\ v \in {"red ", "not-a-color"} => bg = NoColor

\* a declaration behind another one, its value ended by ';'
C18_Witness ==
    /\ Parsed
    /\ helper.arg = <<El("h1", "T", EmptyDict),
                      El("body", "", [style |->
                          "color: red; background-color: #FF8000; margin: 0"])>>
    /\ returned.value.background_color = <<255, 128, 0>>

----------------------------------------------------------------------------
(* C19 *)

\* _add_slide_content has run to its end on a canvas of its own
Rendered ==
    /\ helper.fn = "_add_slide_content"
    /\ returned # NotReturned
    /\ returned.exc = NoExc

TextBoxes(shapes) == SelectSeq(shapes, LAMBDA sh : sh.kind = "textbox")
Pictures(shapes) == SelectSeq(shapes, LAMBDA sh : sh.kind = "picture")

\* C19: on every rendered slide the title box is there exactly when the
\* title is non-empty, at offset (0.5, 0.5) with height 1.5; the body box is
\* there exactly when the body is non-empty, its top 2.5 below a title and
\* 0.5 without one, its height the canvas height less its top less 0.5;
\* when both are there the title box ends at or above the top of the body
\* box.
C19_TitleAndBodyBoxes ==
    Rendered =>
        LET slide_data == helper.arg
            boxes == TextBoxes(returned.canvas.slides[1].shapes)
            hasTitle == slide_data.title # ""
            hasBody == slide_data.body # ""
            n == (IF hasTitle THEN 1 ELSE 0) + (IF hasBody THEN 1 ELSE 0)
        IN /\ Len(boxes) = n
           /\ hasTitle =>
                 /\ boxes[1].paragraphs = <<slide_data.title>>
                 /\ boxes[1].left = Inches(5)
                 /\ boxes[1].top = Inches(5)
                 /\ boxes[1].height = Inches(15)
           /\ hasBody =>
                 LET top == IF hasTitle THEN Inches(25) ELSE Inches(5)
                 IN /\ Join(boxes[n].paragraphs, "\n") = slide_data.body
                    /\ boxes[n].top = top
                    /\ boxes[n].height = config.slide_height - top - Inches(5)
           /\ (hasTitle /\ hasBody) =>
                 boxes[1].top + boxes[1].height <= boxes[2].top

\* a slide with both boxes, the body 2.5 inches down
C19_Witness ==
    /\ Rendered
    /\ helper.arg.title = "T"
    /\ helper.arg.body = "B\nC"
    /\ Len(TextBoxes(returned.canvas.slides[1].shapes)) = 2
    /\ TextBoxes(returned.canvas.slides[1].shapes)[2].top = Inches(25)

----------------------------------------------------------------------------
(* C20 *)

\* the images of a slide model that resolve
Resolved(images) ==
    SelectSeq(images, LAMBDA im : ~_download_image(im.src).none)

\* C20: for every resolved image of decoded size w x h: when w / h > 1 the
\* insert width is min(max_image_width, slide_width - 1) and the insert
\* height that width divided by w / h; otherwise the insert height is
\* min(max_image_height, slide_height - 3) and the insert width that height
\* times w / h; either way insert width / insert height = w / h.  The
\* picture on the slide has these lengths in whole EMU.
C20_FitKeepsAspectRatio ==
    Rendered =>
        LET images == Resolved(helper.arg.images)
            pictures == Pictures(returned.canvas.slides[1].shapes)
        IN /\ Len(pictures) = Len(images)
           /\ \A k \in 1..Len(images) :
                 LET w == Fetch(images[k].src).width
                     h == Fetch(images[k].src).height
                     f == Fit(_download_image(images[k].src), config)
                     maxW == Min(config.max_image_width,
                                 config.slide_width - Inches(10))
                     maxH == Min(config.max_image_height,
                                 config.slide_height - Inches(30))
                 IN /\ IF w > h
                       THEN /\ f.width.num = maxW * f.width.den
                            /\ f.height.num * w = maxW * h * f.height.den
                       ELSE /\ f.height.num = maxH * f.height.den
                            /\ f.width.num * h = maxH * w * f.width.den
                    /\ f.width.num * f.height.den * h
                          = f.height.num * f.width.den * w
                    /\ pictures[k].width * f.width.den <= f.width.num
                    /\ f.width.num < (pictures[k].width + 1) * f.width.den
                    /\ pictures[k].height * f.height.den <= f.height.num
                    /\ f.height.num < (pictures[k].height + 1) * f.height.den

\* a 3 x 2 image with max_image_width 8 inches: 8 inches wide, 8 / 1.5 high;
\* and a square one behind it, bounded by its height
C20_Witness ==
    /\ Rendered
    /\ environ = DefaultEnviron
    /\ helper.arg.images = <<[src |-> UrlOk, alt |-> ""], [src |-> UrlSquare, alt |-> ""]>>
    /\ Pictures(returned.canvas.slides[1].shapes)[1].width = Inches(80)
    /\ Pictures(returned.canvas.slides[1].shapes)[1].height = 4876800
    /\ Pictures(returned.canvas.slides[1].shapes)[2].height = Inches(45)
    /\ Pictures(returned.canvas.slides[1].shapes)[2].width = Inches(45)

----------------------------------------------------------------------------
(* C21 *)

\* C21: the insert lengths computed for a resolved image respect the
\* configured maxima: for every decoded width and height the insert width
\* is at most max_image_width and the insert height at most
\* max_image_height.
C21_FitWithinMaxima ==
    Rendered =>
        \A k \in 1..Len(Resolved(helper.arg.images)) :
            LET f == Fit(_download_image(Resolved(helper.arg.images)[k].src),
                         config)
            IN /\ f.width.num <= config.max_image_width * f.width.den
               /\ f.height.num <= config.max_image_height * f.height.den

\* the 3 x 2 image on the default canvas: 8 inches wide, and higher than
\* the 5 inches of max_image_height
C21_Reached ==
    /\ Rendered
    /\ environ = DefaultEnviron
    /\ helper.arg.images = <<[src |-> UrlOk, alt |-> ""]>>
    /\ Pictures(returned.canvas.slides[1].shapes)[1].width
          = config.max_image_width
    /\ Pictures(returned.canvas.slides[1].shapes)[1].height
          > config.max_image_height

----------------------------------------------------------------------------
(* C22 *)

\* C22: every resolved image is placed with left = (slide_width - insert
\* width) / 2 and top = slide_height - insert height - 0.5, in whole EMU;
\* the place depends on the image's own size and the configuration only,
\* not on the title, the body or the other images of the slide, and two
\* images of one size on a slide are placed at the same position.
C22_PlacementByOwnSize ==
    Rendered =>
        LET images == Resolved(helper.arg.images)
            pictures == Pictures(returned.canvas.slides[1].shapes)
        IN /\ Len(pictures) = Len(images)
           /\ \A k \in 1..Len(images) :
                 LET img == _download_image(images[k].src)
                     f == Fit(img, config)
                     alone == _add_slide_content(
                                  NewPresentation(config),
                                  [title |-> "", body |-> "",
                                   images |-> <<images[k]>>,
                                   background_color |-> NoColor],
                                  config).canvas.slides[1].shapes[1]
                 IN /\ pictures[k].left =
                          TruncDiv(config.slide_width * f.width.den
                                       - f.width.num,
                                   2 * f.width.den)
                    /\ pictures[k].top =
                          TruncDiv((config.slide_height - Inches(5))
                                       * f.height.den - f.height.num,
                                   f.height.den)
                    /\ pictures[k] = alone
           /\ \A j, k \in 1..Len(images) :
                 (/\ Fetch(images[j].src).width = Fetch(images[k].src).width
                  /\ Fetch(images[j].src).height = Fetch(images[k].src).height) =>
                     /\ pictures[j].left = pictures[k].left
                     /\ pictures[j].top = pictures[k].top

\* the same image twice under a title and a body: both at one place
C22_Witness ==
    /\ Rendered
    /\ environ = DefaultEnviron
    /\ helper.arg.title = "T"
    /\ helper.arg.body = "B"
    /\ helper.arg.images = <<[src |-> UrlOk, alt |-> ""], [src |-> UrlOk, alt |-> ""]>>
    /\ Len(Pictures(returned.canvas.slides[1].shapes)) = 2
    /\ Pictures(returned.canvas.slides[1].shapes)[1].left = Inches(10)
    /\ Pictures(returned.canvas.slides[1].shapes)[2].left = Inches(10)
    /\ Pictures(returned.canvas.slides[1].shapes)[1].top = 1524000
    /\ Pictures(returned.canvas.slides[1].shapes)[2].top = 1524000

----------------------------------------------------------------------------
(* C23 *)

\* the constructor has returned or raised
ConstructorDone == helper.fn = "__init__" /\ returned # NotReturned

\* the field a dimension setting is stored in
DimensionField(key) ==
    CASE key = "PPTX_SLIDE_WIDTH" -> "slide_width"
      [] key = "PPTX_SLIDE_HEIGHT" -> "slide_height"
      [] key = "PPTX_MAX_IMAGE_WIDTH" -> "max_image_width"
      [] key = "PPTX_MAX_IMAGE_HEIGHT" -> "max_image_height"

\* C23: after construction, for every value of the dimension settings
\* (slide width and height, max image width and height), each configured
\* dimension is positive; a dimension string that is not a number falls
\* back to 10 inches instead of failing.
C23_DimensionsPositive ==
    (ConstructorDone /\ DOMAIN environ \subseteq DimensionKeys) =>
        /\ returned.exc = NoExc
        /\ \A key \in DimensionKeys : config[DimensionField(key)] > 0
        /\ \A key \in DOMAIN environ :
              environ[key] \in NotNumbers =>
                  config[DimensionField(key)] = Inches(100)

\* PPTX_SLIDE_WIDTH=-5: the service is constructed with a negative width
C23_Reached ==
    /\ ConstructorDone
    /\ environ = [k \in {"PPTX_SLIDE_WIDTH"} |-> "-5"]
    /\ returned.exc = NoExc
    /\ config.slide_width = -Inches(50)

----------------------------------------------------------------------------
(* C24 *)

\* the field an integer setting is stored in, and the documented defaults
IntegerField(key) ==
    CASE key = "PPTX_TITLE_FONT_SIZE" -> "title_font_size"
      [] key = "PPTX_BODY_FONT_SIZE" -> "body_font_size"
      [] key = "PPTX_IMAGE_QUALITY" -> "image_quality"
      [] key = "HTTP_TIMEOUT" -> "request_timeout"

DocumentedDefault(key) ==
    CASE key = "PPTX_SLIDE_WIDTH" -> Inches(100)
      [] key = "PPTX_SLIDE_HEIGHT" -> Inches(75)
      [] key = "PPTX_MAX_IMAGE_WIDTH" -> Inches(80)
      [] key = "PPTX_MAX_IMAGE_HEIGHT" -> Inches(50)
      [] key = "PPTX_TITLE_FONT_SIZE" -> 44
      [] key = "PPTX_BODY_FONT_SIZE" -> 28
      [] key = "PPTX_IMAGE_QUALITY" -> 95
      [] key = "HTTP_TIMEOUT" -> 30

\* C24: construction never fails on a malformed numeric setting: for each
\* numeric setting (canvas width and height, title and body font size,
\* image quality, max image width and height, network timeout) a malformed
\* value is replaced by the documented default of that setting (10 / 7.5,
\* 44 / 28, 95, 8 / 5, 30).
C24_MalformedFallsBackToDefault ==
    ConstructorDone =>
        \A key \in DOMAIN environ :
            (key \in DimensionKeys \cup IntegerKeys
                /\ environ[key] \in NotNumbers) =>
                /\ returned.exc = NoExc
                /\ config[IF key \in DimensionKeys THEN DimensionField(key)
                          ELSE IntegerField(key)] = DocumentedDefault(key)

\* PPTX_TITLE_FONT_SIZE=abc: the constructor raises the ValueError of int()
C24_Reached ==
    /\ ConstructorDone
    /\ environ = [k \in {"PPTX_TITLE_FONT_SIZE"} |-> "abc"]
    /\ returned.exc.type = "ValueError"
    /\ config = NoConfig

----------------------------------------------------------------------------
(* C25 *)

\* C25: for every configuration whose dimensions are all positive and
\* every slide model, each shape placed on the slide (title box, body box,
\* each picture) has positive width and height and lies inside the canvas:
\* left >= 0, top >= 0, left + width <= slide_width and top + height <=
\* slide_height.
C25_ShapesInsideCanvas ==
    (/\ Rendered
     /\ config.slide_width > 0 /\ config.slide_height > 0
     /\ config.max_image_width > 0 /\ config.max_image_height > 0) =>
        LET shapes == returned.canvas.slides[1].shapes
        IN \A k \in 1..Len(shapes) :
              /\ shapes[k].width > 0
              /\ shapes[k].height > 0
              /\ shapes[k].left >= 0
              /\ shapes[k].top >= 0
              /\ shapes[k].left + shapes[k].width <= config.slide_width
              /\ shapes[k].top + shapes[k].height <= config.slide_height

\* a title alone on a canvas 1 inch high: the title box, 1.5 inches high
\* and 0.5 inch from the top, ends below the canvas
C25_Reached ==
    /\ Rendered
    /\ environ = LowEnviron
    /\ helper.arg.title = "T"
    /\ helper.arg.body = ""
    /\ helper.arg.images = <<>>
    /\ Len(returned.canvas.slides[1].shapes) = 1
    /\ returned.canvas.slides[1].shapes[1].top
          + returned.canvas.slides[1].shapes[1].height > config.slide_height

====
